---- MODULE Spec2Model ----
(***************************************************************************)
(* Model of the node service orchestrator of go-expanse (eth/backend.go):  *)
(* construction (New), AddLesServer, Start, Stop, WaitForShutdown,         *)
(* Etherbase / SetEtherbase and StartMining.                               *)
(*                                                                         *)
(* The collaborators (chain store, tx pool, protocol manager, miner,       *)
(* event multiplexer, database, light server) are interfaces to            *)
(* backend.go: the model records the calls backend.go makes on them and    *)
(* the outcomes they report back, which are inputs drawn in Init.          *)
(***************************************************************************)
EXTENDS Integers, Sequences, FiniteSets, TLC

(* ------------------------------ bounds --------------------------------- *)
\* MaxPeers and LightPeers range over -PeerBound..PeerBound (Go ints).
PeerBound == 4
\* LightServ ranges over -1..MaxLightServ.
MaxLightServ == 1
\* chain head heights and rewind targets range over 0..MaxHeight.
MaxHeight == 2
\* concurrent callers of WaitForShutdown.
NumWaiters == 2
\* calls of StartMining.
MaxMiningCalls == 1
\* account addresses are 1..NumAddrs; 0 is the zero address common.Address{}.
NumAddrs == 2
\* wallets of the account manager, and accounts per wallet.
MaxWallets == 2
MaxAccounts == 1

\* concurrent callers of Xeth.Call, and calls made in all.
NumCallers == 2
MaxXethCalls == 3

\* subscriptions of the event multiplexer, and subscribe and post calls in all.
NumSubs == 2
MaxMuxOps == 4

(* --------------------------- program constants -------------------------- *)
\* xeth.go:33, reqId is a uint32: kept as two halves of HalfWidth values each
HalfWidth == 65536
\* core.BlockChainVersion, the schema version New expects and stamps.
BlockChainVersion == 3
\* a stored schema version that is neither 0 nor the expected one.
OtherVersion == BlockChainVersion + 1

ZeroAddress == 0
Addrs == 1..NumAddrs
Waiters == 1..NumWaiters
Heights == 0..MaxHeight
\* the peer counts of the spec's examples, next to the bounded range.
ExamplePeers == {10, 40, 50}
PeerVals == ((0 - PeerBound)..PeerBound) \cup ExamplePeers

VARIABLES
  config,          \* *Config: MaxPeers, LightPeers, LightServ, SkipBcVersionCheck, Etherbase
  env,             \* what the collaborators report to New (inputs)
  wallets,         \* AccountManager().Wallets(): a sequence of account sequences
  bcVersion,       \* the schema version stored in the database
  head,            \* the chain store's head height
  chainDb,         \* "nil" | "open" | "closed"
  dbCloses,        \* number of chainDb.Close() calls
  dbUpgrade,       \* sequential-key upgrade helper: "none" | "running" | "halted"
  stopDbUpgrade,   \* TRUE iff the stopDbUpgrade func is non-nil
  genesisErr,      \* what SetupGenesisBlock returned: [kind, RewindTo]
  configWrites,    \* number of core.WriteChainConfig calls made by New
  newPc,           \* position of New
  newRet,          \* New's result: [eth |-> BOOLEAN, err |-> string]
  newLog,          \* the calls New has made, in order
  blockchain,      \* "nil" | "constructed" | "stopped"
  txPool,          \* "nil" | "constructed" | "stopped"
  protocolManager, \* "nil" | "constructed" | "started" | "stopped"
  pmMaxPeers,      \* the maxPeers argument of NewProtocolManager (0 before the call)
  miner,           \* "nil" | "idle" | "mining"
  minerCoinbase,   \* the address miner.Start was last given
  lesServer,       \* "nil" | "attached" | "started" | "stopped"
  eventMux,        \* "running" | "stopped"
  shutdownChan,    \* "nil" | "open" | "closed"
  shutdownSignals, \* number of close(shutdownChan) executed
  etherbase,       \* Ethereum.etherbase
  startCalls,      \* number of Start calls
  startLog,        \* the calls Start has made, in order
  stopPc,          \* position of Stop: "idle", a step of StopSteps, or "done"
  stopLog,         \* the calls Stop has made, in order
  stopRet,         \* "none" | "nil": what Stop returned
  dbCloseFailed,   \* TRUE iff chainDb.Close() met an error
  waitPc,          \* per waiter: "idle" | "blocked" | "returned"
  waitReturns,     \* per waiter: number of returns from WaitForShutdown
  ebRet,           \* the last Etherbase() result and the state it was computed from
  miningCalls,     \* number of StartMining calls
  miningRet,       \* "none" | "nil" | "etherbase missing"
  minerTasks,      \* spawned `go s.miner.Start(eb, threads)` not yet run
  minerStartedAt,  \* where Stop was when the StartMining behind the last miner.Start was called
  reqId,           \* Xeth.reqId, a uint32 kept as two 16-bit halves
  reqIdInit,       \* the value of Xeth.reqId the run began with
  xethCall,        \* per caller: position in Xeth.Call, request id, steps taken, result
  xethCalls,       \* Xeth.Call invocations so far
  idLog,           \* the request ids in the order atomic.AddUint32 issued them
  muxSubs,         \* per subscription of the event multiplexer: state, kind-set, events seen
  muxPosted,       \* the events the multiplexer accepted, in post order
  muxPost,         \* the post being delivered, with the subscriptions still to reach
  muxOps,          \* subscribe and post calls so far
  muxResult        \* what the last subscribe or post reported

dbVars    == <<bcVersion, head, chainDb, dbCloses, dbUpgrade, stopDbUpgrade, configWrites>>
newVars   == <<genesisErr, newPc, newRet, newLog, pmMaxPeers>>
subVars   == <<blockchain, txPool, protocolManager, lesServer, eventMux>>
minerVars == <<miner, minerCoinbase, miningCalls, miningRet, minerTasks, minerStartedAt>>
stopVars  == <<stopPc, stopLog, stopRet, dbCloseFailed, shutdownChan, shutdownSignals>>
waitVars  == <<waitPc, waitReturns>>
ebVars    == <<etherbase, ebRet>>
startVars == <<startCalls, startLog>>
inputVars == <<config, env, wallets>>
xethVars  == <<reqId, reqIdInit, xethCall, xethCalls, idLog>>
ethVars   == <<inputVars, dbVars, newVars, subVars, minerVars, stopVars, waitVars,
               ebVars, startVars>>

muxVars   == <<muxSubs, muxPosted, muxPost, muxOps, muxResult>>

vars == <<ethVars, xethVars, muxVars>>

(* ------------------------------ helpers -------------------------------- *)
\* Go's integer division truncates toward zero.
GoDiv(a, b) == IF a >= 0 THEN a \div b ELSE 0 - ((0 - a) \div b)

Max(a, b) == IF a >= b THEN a ELSE b
Min(a, b) == IF a <= b THEN a ELSE b

IsPrefix(s, t) == Len(s) <= Len(t) /\ s = SubSeq(t, 1, Len(s))

\* index of the first occurrence of e in s, 0 if absent
RECURSIVE IndexFrom(_, _, _)
IndexFrom(s, e, i) ==
  IF i > Len(s) THEN 0 ELSE IF s[i] = e THEN i ELSE IndexFrom(s, e, i + 1)
IndexOf(s, e) == IndexFrom(s, e, 1)
Count(s, e) == Cardinality({i \in 1..Len(s) : s[i] = e})

SeqsUpTo(S, n) == UNION {[1..k -> S] : k \in 0..n}

NoGenesisErr == [kind |-> "nil", RewindTo |-> 0]
NoRet == [eth |-> FALSE, err |-> "pending"]
NoEbRet == [called |-> FALSE, eb |-> ZeroAddress, err |-> FALSE, etherbase |-> ZeroAddress]

(* ------------------------------- inputs -------------------------------- *)
Configs(peers, lightServs, skips, ebs) ==
  [MaxPeers : peers, LightPeers : peers, LightServ : lightServs,
   SkipBcVersionCheck : skips, Etherbase : ebs]

\* what core.SetupGenesisBlock can return: no error, a *params.ConfigCompatError
\* with its RewindTo, or another error
GenesisOutcomes ==
  {[kind |-> "nil", RewindTo |-> 0], [kind |-> "other", RewindTo |-> 0]}
    \cup [kind : {"compat"}, RewindTo : Heights]

\* height: the head height of the chain stored in the database
Envs(oks, genesis, heights) ==
  [dbOpen : oks, needUpgrade : BOOLEAN, genesis : genesis, height : heights,
   bloom : oks, chain : oks, pm : oks, dbCloseErr : BOOLEAN]

Callers == 1..NumCallers

\* uint32 values as [hi, lo]; atomic.AddUint32(&x, 1) wraps at 2^32
Uint32Zero == [hi |-> 0, lo |-> 0]
Uint32Max == [hi |-> HalfWidth - 1, lo |-> HalfWidth - 1]
Uint32(n) == [hi |-> 0, lo |-> n]
Uint32Inc(x) ==
  IF x.lo < HalfWidth - 1 THEN [hi |-> x.hi, lo |-> x.lo + 1]
  ELSE [hi |-> (x.hi + 1) % HalfWidth, lo |-> 0]
\* a Xeth two calls short of the wrap of its counter
Uint32NearWrap == [hi |-> HalfWidth - 1, lo |-> HalfWidth - 3]

NoId == [hi |-> -1, lo |-> -1]
NoXethRet == [value |-> "pending", err |-> "pending"]
NoCall == [pc |-> "idle", id |-> NoId, trace |-> <<>>, ret |-> NoXethRet]

Subs == 1..NumSubs

\* events.go:27-71, the event types; two of them stand for the kinds posted
EventKinds ==
  {"TxPreEvent", "TxPostEvent", "NewBlockEvent", "NewMinedBlockEvent",
   "ChainSplitEvent", "ChainEvent", "ChainSideEvent", "PendingBlockEvent",
   "ChainUncleEvent", "ChainHeadEvent", "GasPriceChanged", "StartMining",
   "TopMining"}
PostedKinds == {"TxPreEvent", "ChainHeadEvent"}
KindSets == SUBSET PostedKinds \ {{}}

NoSub == [state |-> "none", kinds |-> {}, seen |-> <<>>, since |-> 0, until |-> 0,
          closes |-> 0]
NoPost == [kind |-> "none", n |-> 0, todo |-> {}]

AllWallets == SeqsUpTo(SeqsUpTo(Addrs, MaxAccounts), MaxWallets)

InitEth ==
  /\ chainDb = "nil" /\ dbCloses = 0 /\ dbUpgrade = "none" /\ stopDbUpgrade = FALSE
  /\ genesisErr = NoGenesisErr /\ configWrites = 0
  /\ newPc = "CreateDB" /\ newRet = NoRet /\ newLog = <<>>
  /\ blockchain = "nil" /\ txPool = "nil" /\ protocolManager = "nil"
  /\ pmMaxPeers = 0 /\ miner = "nil" /\ minerCoinbase = ZeroAddress
  /\ lesServer = "nil" /\ eventMux = "running"
  /\ shutdownChan = "nil" /\ shutdownSignals = 0
  /\ etherbase = ZeroAddress
  /\ startCalls = 0 /\ startLog = <<>>
  /\ stopPc = "idle" /\ stopLog = <<>> /\ stopRet = "none" /\ dbCloseFailed = FALSE
  /\ waitPc = [w \in Waiters |-> "idle"] /\ waitReturns = [w \in Waiters |-> 0]
  /\ ebRet = NoEbRet
  /\ miningCalls = 0 /\ miningRet = "none" /\ minerTasks = {}
  /\ minerStartedAt = "none"

\* xeth.go:37-41, NewXeth leaves reqId at its zero value; `start` is the
\* counter after the calls a long-lived Xeth has already served
InitXeth(start) ==
  /\ reqId = start /\ reqIdInit = start
  /\ xethCall = [c \in Callers |-> NoCall]
  /\ xethCalls = 0
  /\ idLog = <<>>

\* a multiplexer nobody has subscribed to or posted on
InitMux ==
  /\ muxSubs = [s \in Subs |-> NoSub]
  /\ muxPosted = <<>>
  /\ muxPost = NoPost
  /\ muxOps = 0
  /\ muxResult = "none"

InitRest == InitEth /\ InitXeth(Uint32Zero) /\ InitMux

(* ---------------------------- construction ----------------------------- *)
\* backend.go:204-213, the full-peer capacity handed to NewProtocolManager.
FullCapacityNoFloor(cfg) ==
  IF cfg.LightServ > 0 THEN cfg.MaxPeers - cfg.LightPeers ELSE cfg.MaxPeers

FullCapacity(cfg) ==
  LET maxPeers0 == cfg.MaxPeers
      halfPeers == GoDiv(maxPeers0, 2)
      maxPeers1 == maxPeers0 - cfg.LightPeers
  IN IF cfg.LightServ > 0
       THEN IF maxPeers1 < halfPeers THEN halfPeers ELSE maxPeers1
       ELSE maxPeers0

\* backend.go:157, the genesis error that aborts New.
GenesisFatalAnyErr(err) == err.kind # "nil"

GenesisFatal(err) == err.kind # "nil" /\ err.kind # "compat"

\* backend.go:183, the stored version New refuses.
VersionMismatchNoFirstRun(v) == v # BlockChainVersion

VersionMismatch(v) == v # BlockChainVersion /\ v # 0

\* BlockChain.SetHead: rewinds the chain to the given height, never forward.
SetHead(h, target) == Min(h, target)

NewReturnErr(e) ==
  /\ newPc' = "done"
  /\ newRet' = [eth |-> FALSE, err |-> e]

NewAt(pc) == newPc = pc /\ newRet = NoRet

\* backend.go:151-154
NewCreateDB ==
  /\ NewAt("CreateDB")
  /\ newLog' = Append(newLog, "CreateDB")
  /\ IF env.dbOpen
       THEN /\ chainDb' = "open"
            /\ newPc' = "upgradeSequentialKeys"
            /\ UNCHANGED newRet
       ELSE /\ NewReturnErr("CreateDB")
            /\ UNCHANGED chainDb
  /\ UNCHANGED <<inputVars, xethVars, muxVars, bcVersion, head, dbCloses, dbUpgrade, stopDbUpgrade,
                 configWrites, genesisErr, pmMaxPeers, subVars, minerVars,
                 stopVars, waitVars, ebVars, startVars>>

\* backend.go:155
NewUpgradeSequentialKeys ==
  /\ NewAt("upgradeSequentialKeys")
  /\ newLog' = Append(newLog, "upgradeSequentialKeys")
  /\ stopDbUpgrade' = env.needUpgrade
  /\ dbUpgrade' = IF env.needUpgrade THEN "running" ELSE "none"
  /\ newPc' = "SetupGenesisBlock"
  /\ UNCHANGED <<inputVars, xethVars, muxVars, bcVersion, head, chainDb, dbCloses, configWrites,
                 genesisErr, newRet, pmMaxPeers, subVars, minerVars, stopVars,
                 waitVars, ebVars, startVars>>

\* backend.go:156-159
NewSetupGenesisBlock ==
  /\ NewAt("SetupGenesisBlock")
  /\ newLog' = Append(newLog, "SetupGenesisBlock")
  /\ genesisErr' = env.genesis
  /\ IF GenesisFatal(env.genesis)
       THEN NewReturnErr("genesis")
       ELSE newPc' = "allocate" /\ UNCHANGED newRet
  /\ UNCHANGED <<inputVars, xethVars, muxVars, dbVars, pmMaxPeers, subVars, minerVars, stopVars,
                 waitVars, ebVars, startVars>>

\* backend.go:162-174, the Ethereum struct literal
NewAllocate ==
  /\ NewAt("allocate")
  /\ shutdownChan' = "open"
  /\ etherbase' = config.Etherbase
  /\ newPc' = "addMipmapBloomBins"
  /\ UNCHANGED <<inputVars, xethVars, muxVars, dbVars, genesisErr, newRet, newLog, pmMaxPeers, subVars,
                 minerVars, stopPc, stopLog, stopRet, dbCloseFailed, shutdownSignals,
                 waitVars, ebRet, startVars>>

\* backend.go:176-178
NewAddMipmapBloomBins ==
  /\ NewAt("addMipmapBloomBins")
  /\ newLog' = Append(newLog, "addMipmapBloomBins")
  /\ IF env.bloom
       THEN newPc' = "versionCheck" /\ UNCHANGED newRet
       ELSE NewReturnErr("addMipmapBloomBins")
  /\ UNCHANGED <<inputVars, xethVars, muxVars, dbVars, genesisErr, pmMaxPeers, subVars, minerVars,
                 stopVars, waitVars, ebVars, startVars>>

\* backend.go:181-187
NewVersionCheck ==
  /\ NewAt("versionCheck")
  /\ IF config.SkipBcVersionCheck
       THEN /\ newPc' = "NewBlockChain"
            /\ UNCHANGED <<newRet, newLog, bcVersion>>
       ELSE IF VersionMismatch(bcVersion)
         THEN /\ NewReturnErr("version mismatch")
              /\ newLog' = Append(newLog, "GetBlockChainVersion")
              /\ UNCHANGED bcVersion
         ELSE /\ bcVersion' = BlockChainVersion
              /\ newLog' = newLog \o <<"GetBlockChainVersion", "WriteBlockChainVersion">>
              /\ newPc' = "NewBlockChain"
              /\ UNCHANGED newRet
  /\ UNCHANGED <<inputVars, xethVars, muxVars, head, chainDb, dbCloses, dbUpgrade, stopDbUpgrade,
                 configWrites, genesisErr, pmMaxPeers, subVars, minerVars, stopVars,
                 waitVars, ebVars, startVars>>

\* a NewBlockChain step that closes the database again when it fails
NewNewBlockChainClosesDb ==
  /\ NewAt("NewBlockChain")
  /\ newLog' = Append(newLog, "NewBlockChain")
  /\ IF env.chain
       THEN /\ blockchain' = "constructed"
            /\ newPc' = "rewind"
            /\ UNCHANGED <<newRet, chainDb, dbCloses>>
       ELSE /\ NewReturnErr("NewBlockChain")
            /\ chainDb' = "closed"
            /\ dbCloses' = dbCloses + 1
            /\ UNCHANGED blockchain
  /\ UNCHANGED <<inputVars, xethVars, muxVars, bcVersion, head, dbUpgrade, stopDbUpgrade, configWrites,
                 genesisErr, pmMaxPeers, txPool, protocolManager, lesServer,
                 eventMux, minerVars, stopVars, waitVars, ebVars, startVars>>

\* backend.go:189-193
NewNewBlockChain ==
  /\ NewAt("NewBlockChain")
  /\ newLog' = Append(newLog, "NewBlockChain")
  /\ IF env.chain
       THEN /\ blockchain' = "constructed"
            /\ newPc' = "rewind"
            /\ UNCHANGED newRet
       ELSE /\ NewReturnErr("NewBlockChain")
            /\ UNCHANGED blockchain
  /\ UNCHANGED <<inputVars, xethVars, muxVars, dbVars, genesisErr, pmMaxPeers, txPool, protocolManager,
                 lesServer, eventMux, minerVars, stopVars, waitVars, ebVars,
                 startVars>>

\* backend.go:194-199
NewRewindNoSetHead ==
  /\ NewAt("rewind")
  /\ IF genesisErr.kind = "compat"
       THEN /\ configWrites' = configWrites + 1
            /\ newLog' = newLog \o <<"WriteChainConfig">>
            /\ UNCHANGED head
       ELSE UNCHANGED <<head, configWrites, newLog>>
  /\ newPc' = "NewTxPool"
  /\ UNCHANGED <<inputVars, xethVars, muxVars, bcVersion, chainDb, dbCloses, dbUpgrade, stopDbUpgrade,
                 genesisErr, newRet, pmMaxPeers, subVars, minerVars, stopVars,
                 waitVars, ebVars, startVars>>

NewRewind ==
  /\ NewAt("rewind")
  /\ IF genesisErr.kind = "compat"
       THEN /\ head' = SetHead(head, genesisErr.RewindTo)
            /\ configWrites' = configWrites + 1
            /\ newLog' = newLog \o <<"SetHead", "WriteChainConfig">>
       ELSE UNCHANGED <<head, configWrites, newLog>>
  /\ newPc' = "NewTxPool"
  /\ UNCHANGED <<inputVars, xethVars, muxVars, bcVersion, chainDb, dbCloses, dbUpgrade, stopDbUpgrade,
                 genesisErr, newRet, pmMaxPeers, subVars, minerVars, stopVars,
                 waitVars, ebVars, startVars>>

\* backend.go:201-202
NewNewTxPool ==
  /\ NewAt("NewTxPool")
  /\ newLog' = Append(newLog, "NewTxPool")
  /\ txPool' = "constructed"
  /\ newPc' = "NewProtocolManager"
  /\ UNCHANGED <<inputVars, xethVars, muxVars, dbVars, genesisErr, newRet, pmMaxPeers, blockchain,
                 protocolManager, lesServer, eventMux, minerVars, stopVars, waitVars,
                 ebVars, startVars>>

\* backend.go:204-217
NewNewProtocolManager ==
  /\ NewAt("NewProtocolManager")
  /\ newLog' = Append(newLog, "NewProtocolManager")
  /\ pmMaxPeers' = FullCapacity(config)
  /\ IF env.pm
       THEN /\ protocolManager' = "constructed"
            /\ newPc' = "miner.New"
            /\ UNCHANGED newRet
       ELSE /\ NewReturnErr("NewProtocolManager")
            /\ UNCHANGED protocolManager
  /\ UNCHANGED <<inputVars, xethVars, muxVars, dbVars, genesisErr, blockchain, txPool, lesServer,
                 eventMux, minerVars, stopVars, waitVars, ebVars, startVars>>

\* backend.go:218-233: the miner, the gas price oracle, the API backend; return eth, nil
NewMinerAndReturn ==
  /\ NewAt("miner.New")
  /\ newLog' = newLog \o <<"miner.New", "NewGasPriceOracle">>
  /\ miner' = "idle"
  /\ newPc' = "done"
  /\ newRet' = [eth |-> TRUE, err |-> "nil"]
  /\ UNCHANGED <<inputVars, xethVars, muxVars, dbVars, genesisErr, pmMaxPeers, subVars, minerCoinbase,
                 miningCalls, miningRet, minerTasks, minerStartedAt, stopVars,
                 waitVars, ebVars, startVars>>

NextNew ==
  \/ NewCreateDB
  \/ NewUpgradeSequentialKeys
  \/ NewSetupGenesisBlock
  \/ NewAllocate
  \/ NewAddMipmapBloomBins
  \/ NewVersionCheck
  \/ NewNewBlockChain
  \/ NewRewind
  \/ NewNewTxPool
  \/ NewNewProtocolManager
  \/ NewMinerAndReturn

\* An orchestrator exists once New has returned it.
Ready == newRet.eth

AllOk == [dbOpen |-> TRUE, needUpgrade |-> FALSE, genesis |-> NoGenesisErr,
          height |-> 0, bloom |-> TRUE, chain |-> TRUE, pm |-> TRUE, dbCloseErr |-> FALSE]

\* at most one collaborator of New fails in one construction
OneFailure(e) == Cardinality({f \in {"dbOpen", "bloom", "chain", "pm"} : ~e[f]}) <= 1

(* Construction alone, over every collaborator outcome, stored version and *)
(* chain height.                                                           *)
InitNew ==
  /\ config \in Configs({PeerBound}, {0}, BOOLEAN, {ZeroAddress})
  /\ env \in {e \in Envs(BOOLEAN, GenesisOutcomes, Heights) : ~e.dbCloseErr /\ OneFailure(e)}
  /\ wallets = <<>>
  /\ bcVersion \in {0, OtherVersion, BlockChainVersion}
  /\ head = env.height
  /\ InitRest

SpecNew == InitNew /\ [][NextNew]_vars

(* Construction alone, over every peer configuration.                      *)
InitPeers ==
  /\ config \in Configs(PeerVals, (0 - 1)..MaxLightServ, {FALSE}, {ZeroAddress})
  /\ env = AllOk
  /\ wallets = <<>>
  /\ bcVersion = 0
  /\ head = env.height
  /\ InitRest

SpecPeers == InitPeers /\ [][NextNew]_vars

(* ------------------------------ lifecycle ------------------------------ *)
\* New, AddLesServer, Start and Stop are called by the node's control thread,
\* one call at a time; the thread is free when no Stop is in progress.
ControlFree == stopPc \in {"idle", "done"}

\* backend.go:143-146; the light server is attached once
AddLesServer ==
  /\ Ready /\ ControlFree
  /\ lesServer = "nil"
  /\ lesServer' = "attached"
  /\ UNCHANGED <<inputVars, xethVars, muxVars, dbVars, newVars, blockchain, txPool, protocolManager,
                 eventMux, minerVars, stopVars, waitVars, ebVars, startVars>>

\* a Start that starts the light server's listeners ahead of the protocol
\* manager's
StartLesFirst ==
  /\ Ready /\ ControlFree
  /\ startCalls = 0
  /\ startCalls' = startCalls + 1
  /\ protocolManager' = "started"
  /\ IF lesServer # "nil"
       THEN /\ lesServer' = "started"
            /\ startLog' = startLog \o <<"lesServer.Start", "protocolManager.Start">>
       ELSE /\ UNCHANGED lesServer
            /\ startLog' = startLog \o <<"protocolManager.Start">>
  /\ UNCHANGED <<inputVars, xethVars, muxVars, dbVars, newVars, blockchain, txPool, eventMux, minerVars,
                 stopVars, waitVars, ebVars>>

\* backend.go:393-401; the node starts a service once (node.Service), before
\* or after it stops it: Start itself checks nothing.
Start ==
  /\ Ready /\ ControlFree
  /\ startCalls = 0
  /\ startCalls' = startCalls + 1
  /\ protocolManager' = "started"
  /\ IF lesServer # "nil"
       THEN /\ lesServer' = "started"
            /\ startLog' = startLog \o <<"protocolManager.Start", "lesServer.Start">>
       ELSE /\ UNCHANGED lesServer
            /\ startLog' = startLog \o <<"protocolManager.Start">>
  /\ UNCHANGED <<inputVars, xethVars, muxVars, dbVars, newVars, blockchain, txPool, eventMux, minerVars,
                 stopVars, waitVars, ebVars>>

\* backend.go:406-419, the statements of Stop in program order.
StopSteps ==
  <<"stopDbUpgrade", "blockchain.Stop", "protocolManager.Stop", "lesServer.Stop",
    "txPool.Stop", "miner.Stop", "eventMux.Stop", "chainDb.Close",
    "close(shutdownChan)">>

StopSuccessorIn(order, step) ==
  IF IndexOf(order, step) = Len(order) THEN "return"
  ELSE order[IndexOf(order, step) + 1]

\* the event multiplexer stopped after the database is closed
StopSuccessorMuxAfterDb(step) ==
  StopSuccessorIn(<<"stopDbUpgrade", "blockchain.Stop", "protocolManager.Stop",
                    "lesServer.Stop", "txPool.Stop", "miner.Stop", "chainDb.Close",
                    "eventMux.Stop", "close(shutdownChan)">>, step)

\* the database closed before the tx pool and the miner are stopped
StopSuccessorDbEarly(step) ==
  StopSuccessorIn(<<"stopDbUpgrade", "blockchain.Stop", "protocolManager.Stop",
                    "lesServer.Stop", "chainDb.Close", "txPool.Stop", "miner.Stop",
                    "eventMux.Stop", "close(shutdownChan)">>, step)

StopSuccessor(step) == StopSuccessorIn(StopSteps, step)

StopAt(step) == Ready /\ stopPc = step

\* backend.go:405; the node stops a service once (node.Service): Stop itself
\* checks nothing, and a second Stop would end in StopCloseShutdownChan's panic.
StopCall ==
  /\ Ready
  /\ stopPc = "idle"
  /\ stopPc' = StopSteps[1]
  /\ UNCHANGED <<inputVars, xethVars, muxVars, dbVars, newVars, subVars, minerVars, stopLog, stopRet,
                 dbCloseFailed, shutdownChan, shutdownSignals, waitVars, ebVars,
                 startVars>>

\* backend.go:406-408
StopDbUpgrade ==
  /\ StopAt("stopDbUpgrade")
  /\ IF stopDbUpgrade
       THEN /\ dbUpgrade' = "halted"
            /\ stopLog' = Append(stopLog, "stopDbUpgrade")
       ELSE UNCHANGED <<dbUpgrade, stopLog>>
  /\ stopPc' = StopSuccessor("stopDbUpgrade")
  /\ UNCHANGED <<inputVars, xethVars, muxVars, bcVersion, head, chainDb, dbCloses, stopDbUpgrade,
                 configWrites, newVars, subVars, minerVars, stopRet, dbCloseFailed,
                 shutdownChan, shutdownSignals, waitVars, ebVars, startVars>>

\* backend.go:409
StopBlockchain ==
  /\ StopAt("blockchain.Stop")
  /\ blockchain' = "stopped"
  /\ stopLog' = Append(stopLog, "blockchain.Stop")
  /\ stopPc' = StopSuccessor("blockchain.Stop")
  /\ UNCHANGED <<inputVars, xethVars, muxVars, dbVars, newVars, txPool, protocolManager, lesServer,
                 eventMux, minerVars, stopRet, dbCloseFailed, shutdownChan,
                 shutdownSignals, waitVars, ebVars, startVars>>

\* backend.go:410
StopProtocolManager ==
  /\ StopAt("protocolManager.Stop")
  /\ protocolManager' = "stopped"
  /\ stopLog' = Append(stopLog, "protocolManager.Stop")
  /\ stopPc' = StopSuccessor("protocolManager.Stop")
  /\ UNCHANGED <<inputVars, xethVars, muxVars, dbVars, newVars, blockchain, txPool, lesServer, eventMux,
                 minerVars, stopRet, dbCloseFailed, shutdownChan, shutdownSignals,
                 waitVars, ebVars, startVars>>

\* backend.go:411-413
StopLesServer ==
  /\ StopAt("lesServer.Stop")
  /\ IF lesServer # "nil"
       THEN /\ lesServer' = "stopped"
            /\ stopLog' = Append(stopLog, "lesServer.Stop")
       ELSE UNCHANGED <<lesServer, stopLog>>
  /\ stopPc' = StopSuccessor("lesServer.Stop")
  /\ UNCHANGED <<inputVars, xethVars, muxVars, dbVars, newVars, blockchain, txPool, protocolManager,
                 eventMux, minerVars, stopRet, dbCloseFailed, shutdownChan,
                 shutdownSignals, waitVars, ebVars, startVars>>

\* backend.go:414
StopTxPool ==
  /\ StopAt("txPool.Stop")
  /\ txPool' = "stopped"
  /\ stopLog' = Append(stopLog, "txPool.Stop")
  /\ stopPc' = StopSuccessor("txPool.Stop")
  /\ UNCHANGED <<inputVars, xethVars, muxVars, dbVars, newVars, blockchain, protocolManager, lesServer,
                 eventMux, minerVars, stopRet, dbCloseFailed, shutdownChan,
                 shutdownSignals, waitVars, ebVars, startVars>>

\* backend.go:415
StopMiner ==
  /\ StopAt("miner.Stop")
  /\ miner' = "idle"
  /\ stopLog' = Append(stopLog, "miner.Stop")
  /\ stopPc' = StopSuccessor("miner.Stop")
  /\ UNCHANGED <<inputVars, xethVars, muxVars, dbVars, newVars, subVars, minerCoinbase, miningCalls,
                 miningRet, minerTasks, minerStartedAt, stopRet, dbCloseFailed,
                 shutdownChan,
                 shutdownSignals, waitVars, ebVars, startVars>>

\* the multiplexer's stop closing each live subscription
CloseAll(subs, at) ==
  [s \in Subs |->
     IF subs[s].state = "live"
       THEN [subs[s] EXCEPT !.state = "closed", !.until = at, !.closes = @ + 1]
       ELSE subs[s]]

\* a stop of the multiplexer that waits for no post and closes no subscription
StopEventMuxOnlyFlag ==
  /\ StopAt("eventMux.Stop")
  /\ eventMux' = "stopped"
  /\ UNCHANGED muxSubs
  /\ stopLog' = Append(stopLog, "eventMux.Stop")
  /\ stopPc' = StopSuccessor("eventMux.Stop")
  /\ UNCHANGED <<inputVars, xethVars, dbVars, newVars, blockchain, txPool, protocolManager,
                 lesServer, minerVars, stopRet, dbCloseFailed, shutdownChan,
                 shutdownSignals, waitVars, ebVars, startVars, muxPosted, muxPost,
                 muxOps, muxResult>>

\* backend.go:416
StopEventMux ==
  /\ StopAt("eventMux.Stop")
  /\ muxPost = NoPost
  /\ eventMux' = "stopped"
  /\ muxSubs' = CloseAll(muxSubs, Len(muxPosted))
  /\ stopLog' = Append(stopLog, "eventMux.Stop")
  /\ stopPc' = StopSuccessor("eventMux.Stop")
  /\ UNCHANGED <<inputVars, xethVars, dbVars, newVars, blockchain, txPool, protocolManager,
                 lesServer, minerVars, stopRet, dbCloseFailed, shutdownChan,
                 shutdownSignals, waitVars, ebVars, startVars, muxPosted, muxPost,
                 muxOps, muxResult>>

\* a Stop that gives up when closing the database fails
StopChainDbCloseAbortOnErr ==
  /\ StopAt("chainDb.Close")
  /\ chainDb' = "closed"
  /\ dbCloses' = dbCloses + 1
  /\ dbCloseFailed' = env.dbCloseErr
  /\ stopLog' = Append(stopLog, "chainDb.Close")
  /\ stopPc' = IF env.dbCloseErr THEN "return" ELSE StopSuccessor("chainDb.Close")
  /\ UNCHANGED <<inputVars, xethVars, muxVars, bcVersion, head, dbUpgrade, stopDbUpgrade, configWrites,
                 newVars, subVars, minerVars, stopRet, shutdownChan, shutdownSignals,
                 waitVars, ebVars, startVars>>

\* backend.go:418; Database.Close() returns nothing, a failure is only logged
StopChainDbClose ==
  /\ StopAt("chainDb.Close")
  /\ chainDb' = "closed"
  /\ dbCloses' = dbCloses + 1
  /\ dbCloseFailed' = env.dbCloseErr
  /\ stopLog' = Append(stopLog, "chainDb.Close")
  /\ stopPc' = StopSuccessor("chainDb.Close")
  /\ UNCHANGED <<inputVars, xethVars, muxVars, bcVersion, head, dbUpgrade, stopDbUpgrade, configWrites,
                 newVars, subVars, minerVars, stopRet, shutdownChan, shutdownSignals,
                 waitVars, ebVars, startVars>>

\* backend.go:419; closing a closed channel panics
StopCloseShutdownChan ==
  /\ StopAt("close(shutdownChan)")
  /\ IF shutdownChan = "closed"
       THEN /\ stopPc' = "panic"
            /\ UNCHANGED <<shutdownChan, shutdownSignals, stopLog>>
       ELSE /\ shutdownChan' = "closed"
            /\ shutdownSignals' = shutdownSignals + 1
            /\ stopLog' = Append(stopLog, "close(shutdownChan)")
            /\ stopPc' = StopSuccessor("close(shutdownChan)")
  /\ UNCHANGED <<inputVars, xethVars, muxVars, dbVars, newVars, subVars, minerVars, stopRet,
                 dbCloseFailed, waitVars, ebVars, startVars>>

\* backend.go:421
StopReturn ==
  /\ StopAt("return")
  /\ stopRet' = "nil"
  /\ stopPc' = "done"
  /\ UNCHANGED <<inputVars, xethVars, muxVars, dbVars, newVars, subVars, minerVars, stopLog,
                 dbCloseFailed, shutdownChan, shutdownSignals, waitVars, ebVars,
                 startVars>>

StopStep ==
  \/ StopDbUpgrade
  \/ StopBlockchain
  \/ StopProtocolManager
  \/ StopLesServer
  \/ StopTxPool
  \/ StopMiner
  \/ StopEventMux
  \/ StopChainDbClose
  \/ StopCloseShutdownChan
  \/ StopReturn

(* --------------------------- WaitForShutdown --------------------------- *)
\* backend.go:425, a caller enters WaitForShutdown
WaitForShutdownCall(w) ==
  /\ Ready
  /\ waitPc[w] = "idle"
  /\ waitPc' = [waitPc EXCEPT ![w] = "blocked"]
  /\ UNCHANGED <<inputVars, xethVars, muxVars, dbVars, newVars, subVars, minerVars, stopVars,
                 waitReturns, ebVars, startVars>>

\* a receive that does not wait for the channel to be closed
WaitForShutdownReturnEarly(w) ==
  /\ waitPc[w] = "blocked"
  /\ waitPc' = [waitPc EXCEPT ![w] = "returned"]
  /\ waitReturns' = [waitReturns EXCEPT ![w] = @ + 1]
  /\ UNCHANGED <<inputVars, xethVars, muxVars, dbVars, newVars, subVars, minerVars, stopVars, ebVars,
                 startVars>>

\* backend.go:426, <-s.shutdownChan returns once the channel is closed
WaitForShutdownReturn(w) ==
  /\ waitPc[w] = "blocked"
  /\ shutdownChan = "closed"
  /\ waitPc' = [waitPc EXCEPT ![w] = "returned"]
  /\ waitReturns' = [waitReturns EXCEPT ![w] = @ + 1]
  /\ UNCHANGED <<inputVars, xethVars, muxVars, dbVars, newVars, subVars, minerVars, stopVars, ebVars,
                 startVars>>

(* ------------------------------ etherbase ------------------------------ *)
\* backend.go:338-348
Etherbase(eb, ws) ==
  IF eb # ZeroAddress THEN [eb |-> eb, err |-> FALSE]
  ELSE IF Len(ws) > 0 /\ Len(ws[1]) > 0 THEN [eb |-> ws[1][1], err |-> FALSE]
  ELSE [eb |-> ZeroAddress, err |-> TRUE]

\* a caller of Ethereum.Etherbase()
EtherbaseCall ==
  /\ Ready
  /\ ebRet' = [called |-> TRUE, eb |-> Etherbase(etherbase, wallets).eb,
               err |-> Etherbase(etherbase, wallets).err, etherbase |-> etherbase]
  /\ UNCHANGED <<inputVars, xethVars, muxVars, dbVars, newVars, subVars, minerVars, stopVars, waitVars,
                 etherbase, startVars>>

\* backend.go:351-354
SetEtherbase(a) ==
  /\ Ready
  /\ etherbase' = a
  /\ minerCoinbase' = a
  /\ UNCHANGED <<inputVars, xethVars, muxVars, dbVars, newVars, subVars, miner, miningCalls, miningRet,
                 minerTasks, minerStartedAt, stopVars, waitVars, ebRet, startVars>>

(* -------------------------------- mining ------------------------------- *)
\* whether Stop has not been called yet, is running, or has returned
StopPhase ==
  IF stopPc = "idle" THEN "before" ELSE IF stopPc = "done" THEN "after" ELSE "during"

\* a StartMining that launches the task whatever Etherbase returned
StartMiningUnchecked ==
  /\ Ready
  /\ miningCalls < MaxMiningCalls
  /\ miningCalls' = miningCalls + 1
  /\ miningRet' = "nil"
  /\ minerTasks' = minerTasks \cup
       {[id |-> miningCalls + 1, eb |-> Etherbase(etherbase, wallets).eb,
         stop |-> StopPhase]}
  /\ UNCHANGED <<inputVars, xethVars, muxVars, dbVars, newVars, subVars, miner, minerCoinbase,
                 minerStartedAt, stopVars, waitVars, ebVars, startVars>>

\* backend.go:356-364; a task records where Stop was when StartMining spawned it
StartMining ==
  /\ Ready
  /\ miningCalls < MaxMiningCalls
  /\ miningCalls' = miningCalls + 1
  /\ IF Etherbase(etherbase, wallets).err
       THEN /\ miningRet' = "etherbase missing"
            /\ UNCHANGED minerTasks
       ELSE /\ miningRet' = "nil"
            /\ minerTasks' = minerTasks \cup
                 {[id |-> miningCalls + 1, eb |-> Etherbase(etherbase, wallets).eb,
                   stop |-> StopPhase]}
  /\ UNCHANGED <<inputVars, xethVars, muxVars, dbVars, newVars, subVars, miner, minerCoinbase,
                 minerStartedAt, stopVars, waitVars, ebVars, startVars>>

\* backend.go:362, the goroutine `go s.miner.Start(eb, threads)` runs
MinerStart(t) ==
  /\ t \in minerTasks
  /\ minerTasks' = minerTasks \ {t}
  /\ miner' = "mining"
  /\ minerCoinbase' = t.eb
  /\ minerStartedAt' = t.stop
  /\ UNCHANGED <<inputVars, xethVars, muxVars, dbVars, newVars, subVars, miningCalls, miningRet,
                 stopVars, waitVars, ebVars, startVars>>

\* backend.go:366
StopMining ==
  /\ Ready
  /\ miner = "mining"
  /\ miner' = "idle"
  /\ UNCHANGED <<inputVars, xethVars, muxVars, dbVars, newVars, subVars, minerCoinbase, miningCalls,
                 miningRet, minerTasks, minerStartedAt, stopVars, waitVars, ebVars,
                 startVars>>

(* ---------------------------- specifications --------------------------- *)
Next ==
  \/ NextNew
  \/ AddLesServer
  \/ Start
  \/ StopCall
  \/ StopStep
  \/ \E w \in Waiters : WaitForShutdownCall(w)
  \/ \E w \in Waiters : WaitForShutdownReturn(w)
  \/ StartMining
  \/ \E t \in minerTasks : MinerStart(t)
  \/ StopMining

\* The life of one orchestrator: one configuration, the collaborators working
\* or one of them failing New.
Init ==
  /\ config \in Configs({PeerBound}, {0}, {FALSE}, {ZeroAddress})
  /\ env \in {e \in Envs(BOOLEAN, {NoGenesisErr}, {0}) : OneFailure(e)}
  /\ wallets \in {<<>>, <<<<1>>>>}
  /\ bcVersion = 0
  /\ head = env.height
  /\ InitRest

Spec == Init /\ [][Next]_vars

\* Every goroutine that can take a step eventually takes one (the Go scheduler).
Fairness ==
  /\ WF_vars(StopStep)
  /\ \A w \in Waiters : WF_vars(WaitForShutdownReturn(w))

FairSpec == Spec /\ Fairness

(* Etherbase resolution over every explicit address and wallet directory.  *)
NextEtherbase ==
  \/ NextNew
  \/ EtherbaseCall
  \/ \E a \in Addrs \cup {ZeroAddress} : SetEtherbase(a)

InitEtherbase ==
  /\ config \in Configs({PeerBound}, {0}, {FALSE}, Addrs \cup {ZeroAddress})
  /\ env = AllOk
  /\ wallets \in AllWallets
  /\ bcVersion = 0
  /\ head = env.height
  /\ InitRest

SpecEtherbase == InitEtherbase /\ [][NextEtherbase]_vars

(* ------------------------------ rpc.Xeth ------------------------------- *)
XethAt(c, pc) == xethCall[c].pc = pc

XethStep(c, pc, step) ==
  [xethCall[c] EXCEPT !.pc = pc, !.trace = Append(@, step)]

XethReturn(c, step, value, err) ==
  [xethCall[c] EXCEPT !.pc = "returned", !.trace = Append(@, step),
                      !.ret = [value |-> value, err |-> err]]

\* xeth.go:44, a caller enters Call
XethCall(c) ==
  /\ xethCall[c].pc \in {"idle", "returned"}
  /\ xethCalls < MaxXethCalls
  /\ xethCalls' = xethCalls + 1
  /\ xethCall' = [xethCall EXCEPT ![c] = [NoCall EXCEPT !.pc = "Marshal"]]
  /\ UNCHANGED <<ethVars, muxVars, reqId, reqIdInit, idLog>>

\* xeth.go:46-49, json.Marshal(params)
XethMarshal(c) ==
  /\ XethAt(c, "Marshal")
  /\ \E ok \in BOOLEAN :
       xethCall' = [xethCall EXCEPT ![c] =
         IF ok THEN XethStep(c, "AddUint32", "Marshal.ok")
         ELSE XethReturn(c, "Marshal.err", "nil", "marshal")]
  /\ UNCHANGED <<ethVars, muxVars, reqId, reqIdInit, xethCalls, idLog>>

\* an id taken from the counter before it is incremented
XethAddUint32Old(c) ==
  /\ XethAt(c, "AddUint32")
  /\ reqId' = Uint32Inc(reqId)
  /\ idLog' = Append(idLog, reqId)
  /\ xethCall' = [xethCall EXCEPT ![c] =
       [XethStep(c, "Send", "AddUint32") EXCEPT !.id = reqId]]
  /\ UNCHANGED <<ethVars, muxVars, reqIdInit, xethCalls>>

\* xeth.go:50-55, Id: atomic.AddUint32(&self.reqId, 1), the incremented value
XethAddUint32(c) ==
  /\ XethAt(c, "AddUint32")
  /\ reqId' = Uint32Inc(reqId)
  /\ idLog' = Append(idLog, reqId')
  /\ xethCall' = [xethCall EXCEPT ![c] =
       [XethStep(c, "Send", "AddUint32") EXCEPT !.id = reqId']]
  /\ UNCHANGED <<ethVars, muxVars, reqIdInit, xethCalls>>

\* a Send whose failure is ignored
XethSendIgnoreErr(c) ==
  /\ XethAt(c, "Send")
  /\ \E ok \in BOOLEAN :
       xethCall' = [xethCall EXCEPT ![c] =
         XethStep(c, "Recv", IF ok THEN "Send.ok" ELSE "Send.err")]
  /\ UNCHANGED <<ethVars, muxVars, reqId, reqIdInit, xethCalls, idLog>>

\* xeth.go:57-59, self.client.Send(req)
XethSend(c) ==
  /\ XethAt(c, "Send")
  /\ \E ok \in BOOLEAN :
       xethCall' = [xethCall EXCEPT ![c] =
         IF ok THEN XethStep(c, "Recv", "Send.ok")
         ELSE XethReturn(c, "Send.err", "nil", "send")]
  /\ UNCHANGED <<ethVars, muxVars, reqId, reqIdInit, xethCalls, idLog>>

\* xeth.go:60-68, self.client.Recv() and the type assertion on its result
XethRecv(c) ==
  /\ XethAt(c, "Recv")
  /\ \E res \in {"err", "map", "other"} :
       xethCall' = [xethCall EXCEPT ![c] =
         CASE res = "err" -> XethReturn(c, "Recv.err", "nil", "recv")
           [] res = "map" -> XethReturn(c, "Recv.map", "map", "nil")
           [] res = "other" ->
                XethReturn(c, "Recv.other", "nil", "Invalid response type")]
  /\ UNCHANGED <<ethVars, muxVars, reqId, reqIdInit, xethCalls, idLog>>

NextXeth ==
  \E c \in Callers :
    \/ XethCall(c)
    \/ XethMarshal(c)
    \/ XethAddUint32(c)
    \/ XethSend(c)
    \/ XethRecv(c)

\* a fresh Xeth, and one that has served all but the last two ids of its counter
InitXethAny ==
  /\ config \in Configs({PeerBound}, {0}, {FALSE}, {ZeroAddress})
  /\ env = AllOk
  /\ wallets = <<>>
  /\ bcVersion = 0
  /\ head = env.height
  /\ InitEth
  /\ \E start \in {Uint32Zero, Uint32NearWrap} : InitXeth(start)
  /\ InitMux

SpecXeth == InitXethAny /\ [][NextXeth]_vars

(* -------------------------- event multiplexer -------------------------- *)
MuxFree == Ready /\ muxPost = NoPost /\ muxOps < MaxMuxOps

\* subscribe(kinds): registers a live subscription unless the multiplexer is
\* stopped
MuxSubscribe(s, ks) ==
  /\ MuxFree
  /\ muxSubs[s].state = "none"
  /\ muxOps' = muxOps + 1
  /\ IF eventMux = "stopped"
       THEN /\ muxResult' = "multiplexer stopped"
            /\ UNCHANGED muxSubs
       ELSE /\ muxResult' = "ok"
            /\ muxSubs' = [muxSubs EXCEPT ![s] =
                 [NoSub EXCEPT !.state = "live", !.kinds = ks,
                               !.since = Len(muxPosted)]]
  /\ UNCHANGED <<ethVars, xethVars, muxPosted, muxPost>>

\* the subscriber ends its subscription
MuxUnsubscribe(s) ==
  /\ Ready /\ muxPost = NoPost
  /\ muxSubs[s].state = "live"
  /\ muxSubs' = [muxSubs EXCEPT ![s] =
       [@ EXCEPT !.state = "closed", !.until = Len(muxPosted), !.closes = @ + 1]]
  /\ UNCHANGED <<ethVars, xethVars, muxPosted, muxPost, muxOps, muxResult>>

\* the subscriptions a post of kind k is for
Targets(k) == {s \in Subs : muxSubs[s].state = "live" /\ k \in muxSubs[s].kinds}

\* a post handed to every live subscription whatever its kind-set
MuxPostToAll(k) ==
  /\ MuxFree
  /\ muxOps' = muxOps + 1
  /\ IF eventMux = "stopped"
       THEN /\ muxResult' = "multiplexer stopped"
            /\ UNCHANGED <<muxPosted, muxPost>>
       ELSE /\ muxResult' = "posting"
            /\ muxPosted' = Append(muxPosted, [kind |-> k, n |-> Len(muxPosted) + 1])
            /\ muxPost' = [kind |-> k, n |-> Len(muxPosted) + 1,
                           todo |-> {s \in Subs : muxSubs[s].state = "live"}]
  /\ UNCHANGED <<ethVars, xethVars, muxSubs>>

\* post(event): rejected when the multiplexer is stopped, else bound for every
\* live subscription whose kind-set has the event's kind
MuxPost(k) ==
  /\ MuxFree
  /\ muxOps' = muxOps + 1
  /\ IF eventMux = "stopped"
       THEN /\ muxResult' = "multiplexer stopped"
            /\ UNCHANGED <<muxPosted, muxPost>>
       ELSE /\ muxResult' = "posting"
            /\ muxPosted' = Append(muxPosted, [kind |-> k, n |-> Len(muxPosted) + 1])
            /\ muxPost' = [kind |-> k, n |-> Len(muxPosted) + 1, todo |-> Targets(k)]
  /\ UNCHANGED <<ethVars, xethVars, muxSubs>>

\* the post in flight reaches one of its subscriptions
MuxDeliver(s) ==
  /\ s \in muxPost.todo
  /\ muxSubs' = [muxSubs EXCEPT ![s].seen =
       Append(@, [kind |-> muxPost.kind, n |-> muxPost.n])]
  /\ muxPost' = [muxPost EXCEPT !.todo = @ \ {s}]
  /\ UNCHANGED <<ethVars, xethVars, muxPosted, muxOps, muxResult>>

\* the post in flight has reached all its subscriptions and returns
MuxPostReturn ==
  /\ muxPost # NoPost /\ muxPost.todo = {}
  /\ muxPost' = NoPost
  /\ muxResult' = "ok"
  /\ UNCHANGED <<ethVars, xethVars, muxSubs, muxPosted, muxOps>>

NextMux ==
  \/ NextNew
  \/ StopCall
  \/ StopStep
  \/ \E s \in Subs, ks \in KindSets : MuxSubscribe(s, ks)
  \/ \E s \in Subs : MuxUnsubscribe(s)
  \/ \E k \in PostedKinds : MuxPost(k)
  \/ \E s \in Subs : MuxDeliver(s)
  \/ MuxPostReturn

InitMuxOnly ==
  /\ config \in Configs({PeerBound}, {0}, {FALSE}, {ZeroAddress})
  /\ env = AllOk
  /\ wallets = <<>>
  /\ bcVersion = 0
  /\ head = env.height
  /\ InitRest

SpecMux == InitMuxOnly /\ [][NextMux]_vars

(* Mining control over every explicit address and wallet directory.        *)
NextMining ==
  \/ NextNew
  \/ \E a \in Addrs \cup {ZeroAddress} : SetEtherbase(a)
  \/ StartMining
  \/ \E t \in minerTasks : MinerStart(t)
  \/ StopMining

SpecMining == InitEtherbase /\ [][NextMining]_vars

(* -------------------------------- claims ------------------------------- *)
Range(s) == {s[i] : i \in 1..Len(s)}
Before(s, a, b) == IndexOf(s, a) > 0 /\ IndexOf(s, a) < IndexOf(s, b)

\* Stop has gone past the given step of StopSteps.
StopPast(step) ==
  \/ stopPc \in {"return", "done"}
  \/ IndexOf(StopSteps, stopPc) > IndexOf(StopSteps, step)

\* the steps every Stop performs; the other two depend on the orchestrator
Mandatory(step) == step \notin {"stopDbUpgrade", "lesServer.Stop"}

\* C1: Stop performs its steps in the order upgrade halt, chain store, protocol
\* manager, light server (if attached), tx pool, miner, event multiplexer,
\* database close, shutdown signal: the calls Stop has made so far are always
\* an initial part of that order, the two conditional steps are made exactly
\* when their condition holds, and Stop returns only after the last one.
C1_StopOrder ==
  /\ IsPrefix(stopLog,
              SelectSeq(StopSteps, LAMBDA x : Mandatory(x) \/ x \in Range(stopLog)))
  /\ (StopPast("stopDbUpgrade") => ("stopDbUpgrade" \in Range(stopLog) <=> stopDbUpgrade))
  /\ (StopPast("lesServer.Stop") /\ stopPc # "done"
        => ("lesServer.Stop" \in Range(stopLog) <=> lesServer # "nil"))
  /\ (stopPc \in {"return", "done"}
        => /\ stopLog[Len(stopLog)] = "close(shutdownChan)"
           /\ Before(stopLog, "blockchain.Stop", "eventMux.Stop")
           /\ Before(stopLog, "protocolManager.Stop", "eventMux.Stop")
           /\ Before(stopLog, "txPool.Stop", "eventMux.Stop")
           /\ Before(stopLog, "miner.Stop", "eventMux.Stop")
           /\ Before(stopLog, "eventMux.Stop", "chainDb.Close"))

\* a Stop that made all nine calls
C1_Witness == stopPc = "done" /\ stopLog = StopSteps

\* Stop has been called on every subsystem that uses the database.
SubsystemsStopped ==
  /\ blockchain = "stopped"
  /\ protocolManager = "stopped"
  /\ (lesServer # "nil" => lesServer = "stopped")
  /\ txPool = "stopped"
  /\ "miner.Stop" \in Range(stopLog)

\* C2: the database is closed only by Stop's close step, for the first and
\* only time, after Stop stopped the chain store, the protocol manager, the
\* attached light server, the tx pool and the miner; a Stop that has returned
\* has closed it exactly once.
C2_DbClosedOnce ==
  /\ [][dbCloses' # dbCloses
          => /\ stopPc = "chainDb.Close"
             /\ dbCloses = 0 /\ dbCloses' = 1
             /\ SubsystemsStopped]_vars
  /\ [](chainDb = "closed" <=> dbCloses = 1)
  /\ [](stopPc \in {"return", "done"} => dbCloses = 1)

C2_Witness == chainDb = "closed" /\ dbCloses = 1 /\ lesServer = "stopped" /\ startCalls = 1

\* Stop has been called on an orchestrator that Start was called on.
StopCalledOnStarted == stopPc # "idle" /\ "protocolManager.Start" \in Range(startLog)

\* C3: a Stop called on a started orchestrator signals the shutdown broadcast,
\* also when closing the database failed, and the broadcast is never signalled
\* twice.
C3_ShutdownSignalledOnce ==
  /\ [](shutdownSignals <= 1)
  /\ [](stopPc \in {"return", "done"} => shutdownSignals = 1)
  /\ (StopCalledOnStarted ~> (shutdownSignals = 1 /\ stopPc = "done"))

C3_Witness ==
  /\ stopPc = "done" /\ dbCloseFailed /\ shutdownSignals = 1
  /\ Before(startLog \o stopLog, "protocolManager.Start", "blockchain.Stop")

\* C4: a caller of WaitForShutdown returns only after Stop closed the database
\* and signalled the broadcast, returns once, and every caller blocked in it
\* when or after the broadcast is signalled returns.
C4_WaitersReleased ==
  /\ [](\A w \in Waiters :
          /\ waitReturns[w] = (IF waitPc[w] = "returned" THEN 1 ELSE 0)
          /\ (waitPc[w] = "returned"
                => /\ Before(stopLog, "chainDb.Close", "close(shutdownChan)")
                   /\ chainDb = "closed" /\ shutdownChan = "closed"))
  /\ \A w \in Waiters :
       (waitPc[w] = "blocked" /\ shutdownChan = "closed") ~> (waitPc[w] = "returned")

\* every waiter was released while Stop had not yet returned
C4_Witness == stopPc = "return" /\ \A w \in Waiters : waitPc[w] = "returned"

\* New has called NewProtocolManager.
PmCalled == "NewProtocolManager" \in Range(newLog)

\* C5: the capacity handed to the protocol manager is
\* max(maxPeers - lightPeers, maxPeers / 2) with light serving enabled and
\* maxPeers otherwise; 50 and 40 give 25, 50 and 10 give 40.
C5_FullCapacity ==
  PmCalled =>
    /\ (config.LightServ > 0
          => pmMaxPeers = Max(config.MaxPeers - config.LightPeers,
                              GoDiv(config.MaxPeers, 2)))
    /\ (config.LightServ <= 0 => pmMaxPeers = config.MaxPeers)
    /\ (config.LightServ > 0 /\ config.MaxPeers = 50 /\ config.LightPeers = 40
          => pmMaxPeers = 25)
    /\ (config.LightServ > 0 /\ config.MaxPeers = 50 /\ config.LightPeers = 10
          => pmMaxPeers = 40)

C5_Witness ==
  /\ protocolManager = "constructed" /\ pmMaxPeers = 25
  /\ config.MaxPeers = 50 /\ config.LightPeers = 40

\* C6: for every configuration New accepts, the capacity handed to the
\* protocol manager is between 0 and maxPeers, and with light serving enabled
\* at least maxPeers / 2.
C6_CapacityInRange ==
  PmCalled =>
    /\ 0 <= pmMaxPeers
    /\ pmMaxPeers <= config.MaxPeers
    /\ (config.LightServ > 0 => pmMaxPeers >= GoDiv(config.MaxPeers, 2))

\* C7: with the check not skipped, a stored version other than 0 and the
\* expected one makes New fail with the version mismatch, with no orchestrator,
\* no chain store and the stored version untouched; a stored version of 0 or
\* the expected one lets New go on to the chain store with the expected version
\* stored; with the check skipped the version is neither read nor written.
C7_VersionCheck ==
  /\ [][newPc = "versionCheck" /\ newPc' # newPc =>
          IF config.SkipBcVersionCheck
            THEN newPc' = "NewBlockChain" /\ bcVersion' = bcVersion /\ newLog' = newLog
          ELSE IF bcVersion \notin {0, BlockChainVersion}
            THEN /\ newPc' = "done"
                 /\ newRet' = [eth |-> FALSE, err |-> "version mismatch"]
                 /\ bcVersion' = bcVersion
            ELSE /\ newPc' = "NewBlockChain" /\ newRet' = NoRet
                 /\ bcVersion' = BlockChainVersion]_vars
  /\ [][bcVersion' # bcVersion => newPc = "versionCheck"]_vars
  /\ [](newRet.err = "version mismatch"
          => /\ ~Ready /\ blockchain = "nil"
             /\ bcVersion \notin {0, BlockChainVersion}
             /\ ~config.SkipBcVersionCheck)
  /\ [](blockchain # "nil" /\ ~config.SkipBcVersionCheck => bcVersion = BlockChainVersion)
  /\ [](config.SkipBcVersionCheck
          => Range(newLog) \cap {"GetBlockChainVersion", "WriteBlockChainVersion"} = {})

C7_Witness == newRet.err = "version mismatch" /\ bcVersion = OtherVersion

\* C8: a configuration-compatibility error of genesis resolution never aborts
\* New, which then returns an orchestrator unless a later step fails; any other
\* genesis error makes New return it at once, with no orchestrator and no chain
\* store, tx pool, protocol manager or miner constructed.
C8_GenesisErrors ==
  /\ (genesisErr.kind = "other"
        => /\ newPc = "done" /\ newRet = [eth |-> FALSE, err |-> "genesis"]
           /\ newLog[Len(newLog)] = "SetupGenesisBlock"
           /\ blockchain = "nil" /\ txPool = "nil"
           /\ protocolManager = "nil" /\ miner = "nil")
  /\ (newRet.err = "genesis" => genesisErr.kind = "other")
  /\ (genesisErr.kind = "compat" /\ newPc = "done"
        => /\ "addMipmapBloomBins" \in Range(newLog)
           /\ (env.bloom /\ env.chain /\ env.pm
                 /\ (config.SkipBcVersionCheck \/ bcVersion \in {0, BlockChainVersion})
               => Ready))

C8_Witness == Ready /\ genesisErr.kind = "compat" /\ miner = "idle"

\* C9: when genesis resolution reported a compatibility condition with rewind
\* target R, New calls SetHead(R) and then WriteChainConfig, after NewBlockChain
\* and before NewTxPool, and the head is at most R when New returns the
\* orchestrator; otherwise New neither rewinds nor writes the configuration.
C9_CompatRewind ==
  /\ [](Ready /\ genesisErr.kind = "compat"
          => /\ head <= genesisErr.RewindTo
             /\ head = Min(env.height, genesisErr.RewindTo)
             /\ configWrites = 1
             /\ Before(newLog, "NewBlockChain", "SetHead")
             /\ IndexOf(newLog, "WriteChainConfig") = IndexOf(newLog, "SetHead") + 1
             /\ Before(newLog, "WriteChainConfig", "NewTxPool")
             /\ Count(newLog, "SetHead") = 1)
  /\ []("SetHead" \in Range(newLog) \/ "WriteChainConfig" \in Range(newLog)
          => genesisErr.kind = "compat" /\ blockchain # "nil")
  /\ [](genesisErr.kind # "compat" => head = env.height /\ configWrites = 0)
  /\ [][head' # head \/ configWrites' # configWrites
          => newPc = "rewind" /\ genesisErr.kind = "compat"]_vars

\* the stored chain was higher than the rewind target
C9_Witness ==
  /\ Ready /\ genesisErr.kind = "compat"
  /\ env.height > genesisErr.RewindTo /\ head = genesisErr.RewindTo

HasAccount(ws) == \E i \in 1..Len(ws) : Len(ws[i]) > 0

\* C10: Etherbase returns the explicit address when one is set; otherwise the
\* first account of the first wallet; it fails only if there is neither an
\* explicit address nor any wallet account.
C10_EtherbaseResolution ==
  ebRet.called =>
    /\ (ebRet.etherbase # ZeroAddress => ~ebRet.err /\ ebRet.eb = ebRet.etherbase)
    /\ (ebRet.etherbase = ZeroAddress /\ ~ebRet.err
          => Len(wallets) > 0 /\ Len(wallets[1]) > 0 /\ ebRet.eb = wallets[1][1])
    /\ (ebRet.err => ebRet.etherbase = ZeroAddress /\ ~HasAccount(wallets))

\* the address the claim has StartMining resolve: the explicit one, else the
\* first account of the first wallet
ResolvedAddress ==
  IF etherbase # ZeroAddress THEN etherbase
  ELSE IF Len(wallets) > 0 /\ Len(wallets[1]) > 0 THEN wallets[1][1]
  ELSE ZeroAddress

\* C11: StartMining with no explicit address and no wallet account returns the
\* missing-address error and launches nothing; a StartMining that launches the
\* task hands it the resolved, non-zero address and returns while the task is
\* still to run, leaving the miner as it was; the miner is only ever started
\* with a non-zero address.
C11_MiningNeedsAddress ==
  /\ [][miningCalls' # miningCalls =>
          /\ miner' = miner /\ minerCoinbase' = minerCoinbase
          /\ (etherbase = ZeroAddress /\ ~HasAccount(wallets)
                => miningRet' = "etherbase missing" /\ minerTasks' = minerTasks)
          /\ (miningRet' = "etherbase missing" <=> minerTasks' = minerTasks)
          /\ (minerTasks' # minerTasks
                => /\ miningRet' = "nil"
                   /\ \E t \in minerTasks' \ minerTasks :
                        /\ minerTasks' = minerTasks \cup {t}
                        /\ t.eb = ResolvedAddress /\ t.eb # ZeroAddress)]_vars
  /\ [][miningCalls' = miningCalls /\ minerTasks' # minerTasks
          => miner' = "mining" /\ minerCoinbase' # ZeroAddress]_vars
  /\ [](\A t \in minerTasks : t.eb # ZeroAddress)

\* StartMining has returned nil and its task has not run yet
C11_Witness ==
  /\ miningRet = "nil" /\ miner = "idle" /\ minerTasks # {}
  /\ etherbase = ZeroAddress

\* C12: once Stop has returned, mining started by a StartMining that returned
\* before Stop was called is not running and will not start: the miner is not
\* mining on behalf of such a call and no such task is still waiting to run.
C12_StopEndsMining ==
  stopPc = "done" =>
    /\ ~(miner = "mining" /\ minerStartedAt = "before")
    /\ \A t \in minerTasks : t.stop # "before"

\* C13: a failure of one of Stop's steps, the database close among them, is
\* reported in what Stop returns.
C13_StopSurfacesError ==
  stopPc = "done" /\ dbCloseFailed => stopRet # "nil"

\* C14: until Start is called, neither the protocol manager's nor the light
\* server's listeners are started; a call of Start starts the protocol
\* manager's listeners first and after them the light server's, the latter
\* exactly when one was attached with AddLesServer.
C14_StartOrder ==
  /\ [](startCalls = 0 =>
          /\ protocolManager # "started" /\ lesServer # "started"
          /\ startLog = <<>>)
  /\ [][startCalls' # startCalls =>
          /\ protocolManager' = "started"
          /\ (lesServer # "nil" <=> lesServer' = "started")
          /\ startLog' = startLog \o
               (IF lesServer # "nil"
                  THEN <<"protocolManager.Start", "lesServer.Start">>
                  ELSE <<"protocolManager.Start">>)]_vars

\* Start has run with a light server attached
C14_Witness ==
  /\ startCalls = 1 /\ lesServer = "started" /\ protocolManager = "started"
  /\ startLog = <<"protocolManager.Start", "lesServer.Start">>

\* C15: once Stop has completed, no later call activates the protocol manager,
\* the light server or the miner again.
C15_NoRestartAfterStop ==
  stopPc = "done" =>
    /\ protocolManager # "started"
    /\ lesServer # "started"
    /\ ~(miner = "mining" /\ minerStartedAt = "after")

\* New gave up after the database was opened
NewAbortedAfterOpen ==
  newPc = "done" /\ ~newRet.eth /\ newRet.err # "CreateDB"

\* C19: when New gives up after the database was opened, it returns no
\* orchestrator together with the error and cleans nothing up: the database
\* handle stays open and unclosed, the key-upgrade helper it launched keeps
\* running, and as no orchestrator was returned nothing of Stop ever runs.
C19_NoCleanupOnAbort ==
  NewAbortedAfterOpen =>
    /\ ~Ready
    /\ newRet.err \in {"genesis", "addMipmapBloomBins", "version mismatch",
                       "NewBlockChain", "NewProtocolManager"}
    /\ chainDb = "open" /\ dbCloses = 0
    /\ stopDbUpgrade = env.needUpgrade
    /\ dbUpgrade = (IF env.needUpgrade THEN "running" ELSE "none")
    /\ stopPc = "idle" /\ stopLog = <<>>

\* the chain store could not be built while the key upgrade was running
C19_Witness ==
  /\ NewAbortedAfterOpen /\ newRet.err = "NewBlockChain"
  /\ env.needUpgrade /\ dbUpgrade = "running" /\ chainDb = "open"

\* how often a Call has tried to send, and to receive
Sends(c) == Count(xethCall[c].trace, "Send.ok") + Count(xethCall[c].trace, "Send.err")
Recvs(c) ==
  Count(xethCall[c].trace, "Recv.map") + Count(xethCall[c].trace, "Recv.other")
    + Count(xethCall[c].trace, "Recv.err")
XethFailed(c) ==
  {"Marshal.err", "Send.err", "Recv.err", "Recv.other"} \cap Range(xethCall[c].trace) # {}

\* C18: a Call sends at most once and receives at most once, never sends after
\* a marshaling failure and never receives after a send failure; it returns an
\* error and no map when marshaling, sending or receiving failed or the
\* response was not a map, and a map without error exactly when every step
\* succeeded.
C18_CallErrors ==
  \A c \in Callers :
    /\ Sends(c) <= 1 /\ Recvs(c) <= 1
    /\ "Marshal.err" \in Range(xethCall[c].trace) => Sends(c) = 0 /\ Recvs(c) = 0
    /\ "Send.err" \in Range(xethCall[c].trace) => Recvs(c) = 0
    /\ XethAt(c, "returned") =>
         /\ XethFailed(c) <=> xethCall[c].ret.err # "nil"
         /\ XethFailed(c) <=> xethCall[c].ret.value = "nil"
         /\ xethCall[c].ret = [value |-> "map", err |-> "nil"]
              <=> xethCall[c].trace = <<"Marshal.ok", "AddUint32", "Send.ok", "Recv.map">>
         /\ xethCall[c].ret.value \in {"map", "nil"}

\* one Call has returned a map and another has failed to send
C18_Witness ==
  \E c, d \in Callers :
    /\ XethAt(c, "returned") /\ xethCall[c].ret.value = "map"
    /\ XethAt(d, "returned") /\ xethCall[d].ret.err = "send"

Uint32Less(a, b) == a.hi < b.hi \/ (a.hi = b.hi /\ a.lo < b.lo)

\* C20: the ids are issued one per Call that got past marshaling, each the
\* previous one plus one, the first being 1 on a fresh Xeth, so that they grow
\* strictly until the counter wraps and no two Calls share one, in whatever
\* order concurrent Calls run; a Call whose marshaling failed takes no id and
\* leaves the counter alone.
C20_RequestIds ==
  /\ [](\A i \in 1..Len(idLog) :
          /\ idLog[i] = Uint32Inc(IF i = 1 THEN reqIdInit ELSE idLog[i - 1])
          /\ reqIdInit = Uint32Zero => idLog[i] = Uint32(i)
          /\ i > 1 /\ idLog[i - 1] # Uint32Max => Uint32Less(idLog[i - 1], idLog[i])
          /\ \A j \in 1..Len(idLog) : i # j => idLog[i] # idLog[j])
  /\ [](\A c \in Callers :
          /\ "Marshal.err" \in Range(xethCall[c].trace) => xethCall[c].id = NoId
          /\ xethCall[c].pc \in {"Send", "Recv"} => xethCall[c].id \in Range(idLog)
          /\ \A d \in Callers \ {c} :
               xethCall[c].id # NoId => xethCall[c].id # xethCall[d].id)
  /\ [][\A c \in Callers :
          /\ (XethAt(c, "Marshal") /\ xethCall'[c].pc = "AddUint32")
               => reqId' = reqId /\ idLog' = idLog
          /\ (XethAt(c, "AddUint32") /\ xethCall'[c].pc # "AddUint32")
               => /\ idLog' = Append(idLog, xethCall'[c].id)
                  /\ reqId' = xethCall'[c].id
          /\ (XethAt(c, "Marshal") /\ xethCall'[c].pc = "returned")
               => reqId' = reqId /\ idLog' = idLog]_vars
  /\ [][reqId' # reqId <=> Len(idLog') = Len(idLog) + 1]_vars

\* two concurrent Calls on a fresh Xeth hold the ids 1 and 2 after a third
\* failed to marshal
C20_Witness ==
  /\ idLog = <<Uint32(1), Uint32(2)>> /\ xethCalls = 3
  /\ \A c \in Callers : xethCall[c].pc \in {"Send", "Recv"}

\* the events of kinds ks among those posted after the first `from`, up to `to`
Matching(from, to, ks) ==
  SelectSeq(SubSeq(muxPosted, from + 1, to), LAMBDA e : e.kind \in ks)

\* the last posted event a subscription is due: all up to its close, and, while
\* a post is on its way to it, all but that one
DueUpTo(s) ==
  IF muxSubs[s].state = "closed" THEN muxSubs[s].until
  ELSE IF s \in muxPost.todo THEN Len(muxPosted) - 1
  ELSE Len(muxPosted)

\* C16: what a subscription has observed is exactly the events posted during
\* its life whose kind is in its kind-set, in the order they were posted; a
\* subscription to a single kind has never observed an event of another kind.
C16_Delivery ==
  \A s \in Subs :
    muxSubs[s].state # "none" =>
      /\ muxSubs[s].seen = Matching(muxSubs[s].since, DueUpTo(s), muxSubs[s].kinds)
      /\ \A i \in 1..Len(muxSubs[s].seen) :
           /\ muxSubs[s].seen[i].kind \in muxSubs[s].kinds
           /\ i > 1 => muxSubs[s].seen[i - 1].n < muxSubs[s].seen[i].n
      /\ \A k \in PostedKinds :
           muxSubs[s].kinds = {k} =>
             \A i \in 1..Len(muxSubs[s].seen) : muxSubs[s].seen[i].kind = k

\* a subscription to one kind has got its event while the other kind was
\* posted too, and a subscription to both has got both in post order
C16_Witness ==
  \E s, t \in Subs :
    /\ muxSubs[s].kinds = {"ChainHeadEvent"} /\ Len(muxSubs[s].seen) = 1
    /\ muxSubs[t].kinds = PostedKinds /\ Len(muxSubs[t].seen) = 2
    /\ muxSubs[t].seen[1].kind # muxSubs[t].seen[2].kind

====
